---- MODULE Spec2Model ----
(***************************************************************************)
(* A model of the interactive shell of src/src/main.rs: line assembly      *)
(* (load_command_line), the syntax validator (catch_sytax_error), the      *)
(* quote-aware splitters, redirection resolution (locate_file_stream) and  *)
(* the process pipeline (exec_commands, exec_command_with_pipes).          *)
(*                                                                         *)
(* A Rust &str is modelled as a sequence of one-character strings; byte    *)
(* offsets are the 0-based offsets of the source (Slice(s, a, b) is        *)
(* s[a..b]).  A panic of the Rust program is an explicit outcome.          *)
(***************************************************************************)
EXTENDS Integers, Sequences, FiniteSets, TLC

(***************************************************************************)
(* Bounds of the model.                                                    *)
(***************************************************************************)
\* longest line handed to the validator in SpecSyntax
MaxLen == 4
\* longest standard input (in characters) of the interactive loop in Spec
MaxInput == 6
\* most pipe segments of the command line of SpecPipe
MaxSegs == 3
\* most words of the command line of SpecRedir
MaxWords == 4
\* the count of the physical reads for one line stops at MaxReads
MaxReads == 3

(***************************************************************************)
(* Strings.                                                                *)
(***************************************************************************)
\* char::is_whitespace, restricted to the characters the model feeds
WS == {" ", "\n"}

\* s[a..b] of a Rust string slice (0-based, half open)
Slice(s, a, b) == SubSeq(s, a + 1, b)

\* str::starts_with
StartsWith(s, t) == Len(s) >= Len(t) /\ SubSeq(s, 1, Len(t)) = t

\* str::ends_with
EndsWith(s, t) == Len(s) >= Len(t) /\ SubSeq(s, Len(s) - Len(t) + 1, Len(s)) = t

RECURSIVE TrimStart(_)
\* str::trim_start
TrimStart(s) ==
    IF s # <<>> /\ Head(s) \in WS THEN TrimStart(Tail(s)) ELSE s

RECURSIVE TrimEnd(_)
\* str::trim_end
TrimEnd(s) ==
    IF s # <<>> /\ s[Len(s)] \in WS THEN TrimEnd(SubSeq(s, 1, Len(s) - 1)) ELSE s

\* str::trim
Trim(s) == TrimEnd(TrimStart(s))

RECURSIVE MatchFrom(_, _, _)
\* the offsets str::match_indices(t) yields from offset i on: leftmost,
\* non-overlapping occurrences of t
MatchFrom(s, t, i) ==
    IF i + Len(t) > Len(s) THEN <<>>
    ELSE IF Slice(s, i, i + Len(t)) = t
         THEN <<i>> \o MatchFrom(s, t, i + Len(t))
         ELSE MatchFrom(s, t, i + 1)

\* str::match_indices(t), as the sequence of start offsets
MatchIndices(s, t) == MatchFrom(s, t, 0)

\* the offsets of the quote characters: self.match_indices("\"")
QuotePos(s) == MatchIndices(s, <<"\"">>)

\* pos.chunks(2) ends with a chunk of one element, and pair[1] panics, exactly
\* when the number of quote characters is odd
EscapeScopePanics(s) == Len(QuotePos(s)) % 2 = 1

\* Split::index_in_escape_scope for a string with an even number of quotes
index_in_escape_scope(s, index) ==
    LET pos == QuotePos(s)
    IN  \E k \in 1..(Len(pos) \div 2) :
            /\ index >= pos[2 * k - 1] + 1
            /\ index < pos[2 * k]

(***************************************************************************)
(* catch_sytax_error.                                                      *)
(***************************************************************************)
\* let tokens = vec![";", "|", "&&", ">>", "<<", ">", "<"]
Tokens == << <<";">>, <<"|">>, <<"&", "&">>, <<">", ">">>, <<"<", "<">>,
             <<">">>, <<"<">> >>

\* the results of a call: None, Some(message naming token), or a panic
NoError == [kind |-> "None", token |-> <<>>]
SyntaxError(token) == [kind |-> "Some", token |-> token]
Panic == [kind |-> "panic", token |-> <<>>]

RECURSIVE PairsOf(_, _)
\* the pairs (offset, token) of a sequence of offsets
PairsOf(offsets, token) ==
    IF offsets = <<>> THEN <<>>
    ELSE << <<Head(offsets), token>> >> \o PairsOf(Tail(offsets), token)

RECURSIVE AllMatches(_, _)
\* the pairs visited by the two nested loops of lines 22-23, in visiting
\* order: for each token from the k-th on, its matches in the line
AllMatches(line, k) ==
    IF k > Len(Tokens) THEN <<>>
    ELSE PairsOf(MatchIndices(line, Tokens[k]), Tokens[k]) \o AllMatches(line, k + 1)

\* a mutant of ScanStep: the loop body without the merge rule of lines 25-33
ScanStepNoMerge(line, st, pair) ==
    IF index_in_escape_scope(line, pair[1]) THEN st
    ELSE [pos |-> Append(st.pos, pair), prev_pos |-> st.prev_pos]

\* one iteration of the inner loop body (lines 24-35) on the loop state
\* st = [pos, prev_pos]
ScanStep(line, st, pair) ==
    IF index_in_escape_scope(line, pair[1]) THEN st
    ELSE IF pair[2] \in {<<">">>, <<"<">>}
         THEN IF pair[1] = st.prev_pos + 1
              THEN [pos |-> IF st.pos = <<>> THEN <<>>
                            ELSE SubSeq(st.pos, 1, Len(st.pos) - 1),
                    prev_pos |-> Len(line)]
              ELSE [pos |-> Append(st.pos, pair), prev_pos |-> pair[1]]
         ELSE [pos |-> Append(st.pos, pair), prev_pos |-> st.prev_pos]

RECURSIVE ScanFold(_, _, _)
\* the loops of lines 22-37 over the pairs still to visit
ScanFold(line, st, pairs) ==
    IF pairs = <<>> THEN st
    ELSE ScanFold(line, ScanStep(line, st, Head(pairs)), Tail(pairs))

\* the vector pos after the loops of lines 20-37
ScanPos(line) ==
    ScanFold(line, [pos |-> <<>>, prev_pos |-> Len(line)], AllMatches(line, 1)).pos

RECURSIVE InsertByOffset(_, _)
\* insertion after the entries with an offset not above e's: a stable sort
InsertByOffset(sorted, e) ==
    IF sorted = <<>> THEN <<e>>
    ELSE IF Head(sorted)[1] <= e[1]
         THEN <<Head(sorted)>> \o InsertByOffset(Tail(sorted), e)
         ELSE <<e>> \o sorted

RECURSIVE SortByOffset(_)
\* pos.sort_by(|m, n| m.0.cmp(&n.0)): stable, ascending by offset
SortByOffset(pos) ==
    IF pos = <<>> THEN <<>>
    ELSE InsertByOffset(SortByOffset(SubSeq(pos, 1, Len(pos) - 1)), pos[Len(pos)])

RECURSIVE Walk(_, _, _)
\* the loop of lines 40-47; line[prev..index] panics when prev > index
Walk(line, pos, prev) ==
    IF pos = <<>> THEN NoError
    ELSE LET index == Head(pos)[1]
             token == Head(pos)[2]
         IN  IF prev > index THEN Panic
             ELSE IF Trim(Slice(line, prev, index)) = <<>> THEN SyntaxError(token)
             ELSE Walk(line, Tail(pos), index + Len(token))

\* a mutant of LeadingToken: the loop runs over tokens[..2] and misses "&&"
LeadingTokenShort(line) ==
    IF StartsWith(line, Tokens[1]) THEN Tokens[1]
    ELSE IF StartsWith(line, Tokens[2]) THEN Tokens[2]
    ELSE <<>>

\* lines 14-18: the first of ";", "|", "&&" the trimmed line starts with
LeadingToken(line) ==
    IF StartsWith(line, Tokens[1]) THEN Tokens[1]
    ELSE IF StartsWith(line, Tokens[2]) THEN Tokens[2]
    ELSE IF StartsWith(line, Tokens[3]) THEN Tokens[3]
    ELSE <<>>

\* lines 14-48 on the trimmed line, whose leading token (or <<>>) is lead
Validator(line, lead) ==
    IF lead # <<>> THEN SyntaxError(lead)
    ELSE IF AllMatches(line, 1) # <<>> /\ EscapeScopePanics(line) THEN Panic
    ELSE Walk(line, SortByOffset(ScanPos(line)), 0)

\* the call of Validator on a line already trimmed
ValidateTrimmed(line) == Validator(line, LeadingToken(line))

\* catch_sytax_error(line)
catch_sytax_error(raw) == ValidateTrimmed(Trim(raw))

(***************************************************************************)
(* The splitters of the trait Split.  Both are called only on text that    *)
(* load_command_line returned, which has an even number of quotes.         *)
(***************************************************************************)
\* a mutant of Unquoted: the filter of line 103 is left out
UnquotedUnfiltered(s, offsets) == offsets

RECURSIVE Unquoted(_, _)
\* .filter(|x| !self.index_in_escape_scope(x.0)) on a sequence of offsets
Unquoted(s, offsets) ==
    IF offsets = <<>> THEN <<>>
    ELSE IF index_in_escape_scope(s, Head(offsets))
         THEN Unquoted(s, Tail(offsets))
         ELSE <<Head(offsets)>> \o Unquoted(s, Tail(offsets))

RECURSIVE Breakpoints(_, _, _)
\* lines 100-106: for each token from the k-th on, its unquoted matches
Breakpoints(s, tokens, k) ==
    IF k > Len(tokens) THEN <<>>
    ELSE PairsOf(Unquoted(s, MatchIndices(s, tokens[k])), tokens[k])
            \o Breakpoints(s, tokens, k + 1)

RECURSIVE CutAt(_, _, _)
\* lines 110-119: the slices between the sorted breakpoints; the slice after
\* the last breakpoint is omitted when empty, the others are not
CutAt(s, bps, prev) ==
    IF bps = <<>>
    THEN IF prev < Len(s) THEN <<Slice(s, prev, Len(s))>> ELSE <<>>
    ELSE <<Slice(s, prev, Head(bps)[1])>>
            \o CutAt(s, Tail(bps), Head(bps)[1] + Len(Head(bps)[2]))

\* Split::split_with_strs
split_with_strs(s, tokens) == CutAt(s, SortByOffset(Breakpoints(s, tokens, 1)), 0)

\* lines 124-127: the offsets of the unquoted whitespace characters
WhitespacePos(s) ==
    Unquoted(s, SelectSeq([i \in 1..Len(s) |-> i - 1], LAMBDA i : s[i + 1] \in WS))

RECURSIVE Runs(_, _)
\* lines 128-136 and chunks(2): the (first, last) offsets of the maximal runs
\* of consecutive offsets of pos, from its i-th (1-based) element on
Runs(pos, i) ==
    IF i > Len(pos) THEN <<>>
    ELSE LET last == CHOOSE j \in i..Len(pos) :
                        /\ \A k \in i..(j - 1) : pos[k + 1] = pos[k] + 1
                        /\ (j = Len(pos) \/ pos[j + 1] # pos[j] + 1)
         IN  << <<pos[i], pos[last]>> >> \o Runs(pos, last + 1)

RECURSIVE CutRuns(_, _, _)
\* lines 137-146: the slices between the runs
CutRuns(s, runs, prev) ==
    IF runs = <<>>
    THEN IF prev < Len(s) THEN <<Slice(s, prev, Len(s))>> ELSE <<>>
    ELSE <<Slice(s, prev, Head(runs)[1])>> \o CutRuns(s, Tail(runs), Head(runs)[2] + 1)

\* Split::split_with_chars(char::is_whitespace)
split_with_chars(s) == CutRuns(s, Runs(WhitespacePos(s), 1), 0)

\* parse_command
parse_command(line) == split_with_strs(Trim(line), << <<";">>, <<"&", "&">> >>)

\* str::find("|").is_some(): any '|' character, quoted or not
FindPipe(command) == \E i \in 1..Len(command) : command[i] = "|"

(***************************************************************************)
(* The environment: the file system, the executables on PATH, the home     *)
(* directory.                                                              *)
(***************************************************************************)
\* the directory the shell is started in, and the home directory
StartDir == <<"/">>
HomeDir == <<"/", "h">>
Dirs == {StartDir, HomeDir}

\* the commands Command::spawn finds; every other argv[0] fails to spawn
Executables == { <<"a">>, <<"b">> }

\* the builtin's name, compared with argv[0]
Cd == <<"c", "d">>

\* an Option: None, or Some(v)
None == <<>>
Some(v) == <<v>>

\* the order of characters, for the sorted result of glob
CharRank(c) ==
    CASE c = "*" -> 1 [] c = "/" -> 2 [] c = "a" -> 3 [] c = "b" -> 4
      [] c = "c" -> 5 [] c = "d" -> 6 [] c = "f" -> 7 [] c = "h" -> 8
      [] OTHER -> 9

RECURSIVE PathLess(_, _)
\* the order of paths: lexicographic
PathLess(p, q) ==
    IF q = <<>> THEN FALSE
    ELSE IF p = <<>> THEN TRUE
    ELSE IF Head(p) = Head(q) THEN PathLess(Tail(p), Tail(q))
    ELSE CharRank(Head(p)) < CharRank(Head(q))

RECURSIVE SortedPaths(_)
\* a finite set of paths as the ascending sequence glob yields
SortedPaths(S) ==
    IF S = {} THEN <<>>
    ELSE LET m == CHOOSE p \in S : \A q \in S \ {p} : PathLess(p, q)
         IN  <<m>> \o SortedPaths(S \ {m})

RECURSIVE GlobMatch(_, _)
\* glob::Pattern::matches for patterns of literal characters and '*', which
\* matches any run of characters other than the path separator
GlobMatch(pattern, name) ==
    IF pattern = <<>> THEN name = <<>>
    ELSE IF Head(pattern) = "*"
         THEN \/ GlobMatch(Tail(pattern), name)
              \/ (name # <<>> /\ Head(name) # "/" /\ GlobMatch(pattern, Tail(name)))
         ELSE /\ name # <<>>
              /\ Head(name) = Head(pattern)
              /\ GlobMatch(Tail(pattern), Tail(name))

\* lines 177-180: the pattern itself when glob yields nothing
OrPattern(res, pattern) == IF res = <<>> THEN <<pattern>> ELSE res

\* PathMatcher::match_wild_card in a directory holding the paths files: the
\* matches in ascending order, or the pattern itself when nothing matches
match_wild_card(pattern, files) ==
    OrPattern(SortedPaths({f \in files \cup Dirs : GlobMatch(pattern, f)}), pattern)

\* home_dir().unwrap() panics when there is no home directory
UnfoldPanics(arg, homedir) ==
    homedir = None /\ (arg = <<"~">> \/ StartsWith(arg, <<"~", "/">>))

\* PathMatcher::unfold, where the home directory is known
unfold(arg, homedir) ==
    IF arg = <<"~">> THEN homedir[1]
    ELSE IF StartsWith(arg, <<"~", "/">>)
         THEN homedir[1] \o <<"/">> \o Slice(arg, 2, Len(arg))
         ELSE arg

RECURSIVE ExpandArgs(_, _, _)
\* lines 158-162: each argument unfolded and expanded in place
ExpandArgs(args, files, homedir) ==
    IF args = <<>> THEN <<>>
    ELSE match_wild_card(unfold(Head(args), homedir), files)
            \o ExpandArgs(Tail(args), files, homedir)

\* some argument of args makes unfold panic
AnyUnfoldPanics(args, homedir) ==
    \E i \in 1..Len(args) : UnfoldPanics(args[i], homedir)

\* parse_argv panics when an argument needs the missing home directory
ParseArgvPanics(command, homedir) ==
    AnyUnfoldPanics(split_with_chars(Trim(command)), homedir)

\* parse_argv
parse_argv(command, files, homedir) ==
    ExpandArgs(split_with_chars(Trim(command)), files, homedir)

(***************************************************************************)
(* Redirection: parse_file_path and Wrapper::locate_file_stream.           *)
(***************************************************************************)
\* File::options()...open(path) fails at the OS level: the empty path, a
\* directory
OpenFails(path) == path = <<>> \/ path \in Dirs

\* the state of the loop of locate_file_stream before its first argument:
\* stream, flag and real_argv of lines 213-215, the files of the current
\* directory, the files opened and the errors reported so far, whether the
\* '?' of a parse_file_path call has returned None, whether a slice panicked
LocateStart(files) ==
    [stream |-> None, flag |-> 0, real_argv |-> <<>>, files |-> files,
     opened |-> <<>>, errs |-> <<>>, abort |-> FALSE, panic |-> FALSE]

\* lines 196-201 and the open with its map_or_else, for the paths res the
\* target expands to
OpenTarget(st, res, mode) ==
    IF Len(res) > 1
    THEN [st EXCEPT !.abort = TRUE, !.errs = Append(@, "ambiguous redirect")]
    ELSE IF OpenFails(res[1])
    THEN [st EXCEPT !.stream = None, !.errs = Append(@, "open")]
    ELSE [st EXCEPT !.stream = Some(res[1]),
                    !.files = @ \cup {res[1]},
                    !.opened = Append(@, [path |-> res[1], mode |-> mode])]

\* stream = File::options().create(true).<mode>.open(parse_file_path(target)?)
\* with its map_or_else (lines 194-202 and 221-233)
Redirect(st, target, mode, homedir) ==
    IF UnfoldPanics(target, homedir) THEN [st EXCEPT !.panic = TRUE]
    ELSE OpenTarget(st, match_wild_card(unfold(target, homedir), st.files), mode)

\* lines 259-292: an argument that is no redirection operator, quotes
\* stripped, is the target of a pending operator or an argument to keep
PlainArg(st, real_arg, homedir) ==
    IF st.flag = 1 THEN Redirect(st, real_arg, "append", homedir)
    ELSE IF st.flag = -1 THEN Redirect(st, real_arg, "truncate", homedir)
    ELSE [st EXCEPT !.flag = 0, !.real_argv = Append(@, real_arg)]

\* the body of the loop of lines 216-294 for one argument
LocateStep(st, arg, homedir) ==
    IF StartsWith(arg, <<">", ">">>)
    THEN IF arg = <<">", ">">> THEN [st EXCEPT !.flag = 1]
         ELSE Redirect(st, Slice(arg, 2, Len(arg)), "append", homedir)
    ELSE IF StartsWith(arg, <<">">>)
    THEN IF arg = <<">">> THEN [st EXCEPT !.flag = -1]
         ELSE Redirect(st, Slice(arg, 1, Len(arg)), "truncate", homedir)
    ELSE IF StartsWith(arg, <<"\"">>) /\ Len(arg) < 2
    THEN [st EXCEPT !.panic = TRUE]
    ELSE PlainArg(st, IF StartsWith(arg, <<"\"">>)
                      THEN Slice(arg, 1, Len(arg) - 1) ELSE arg, homedir)

RECURSIVE LocateFold(_, _, _)
\* the loop of lines 216-294; it is left at once when '?' returns or a
\* slice panics
LocateFold(st, args, homedir) ==
    IF args = <<>> \/ st.abort \/ st.panic THEN st
    ELSE LocateFold(LocateStep(st, Head(args), homedir), Tail(args), homedir)

\* lines 295-296, or the early return of '?', after the loop state st
LocateResult(argv, st) ==
    [stream |-> IF st.abort THEN None ELSE st.stream,
     argv |-> IF st.abort THEN argv ELSE st.real_argv,
     files |-> st.files, opened |-> st.opened, errs |-> st.errs,
     panic |-> st.panic]

\* Wrapper::locate_file_stream(&mut argv): the returned stream, argv as the
\* call leaves it (untouched when '?' returned early), and the effects
locate_file_stream(argv, files, homedir) ==
    LocateResult(argv, LocateFold(LocateStart(files), argv, homedir))

(***************************************************************************)
(* State.                                                                  *)
(***************************************************************************)
VARIABLES
    pc,              \* where the program is
    stdin,           \* the characters of standard input not yet read
    buf,             \* main's String s, the buffer load_command_line appends to
    nbytes,          \* the byte count of the last physical read
    reads,           \* the physical reads (calls of load_command_line) for s
    result,          \* the value of the last call of catch_sytax_error
    commands,        \* exec_commands: the compound commands of the line
    ci,              \* exec_commands: the index of the current compound command
    segs,            \* exec_command_with_pipes: commands, the pipe segments
    si,              \* exec_command_with_pipes: the loop index i (1-based)
    prev_command,    \* exec_command_with_pipes: prev_command
    commands_count,  \* exec_command_with_pipes: commands_count
    commands_nums,   \* exec_command_with_pipes: commands_nums
    last_command,    \* exec_commands: last_command
    spawns,          \* the spawn attempts made for s, in order
    waited,          \* the children waited on for s, in order
    opened,          \* the redirection files opened for s, in order
    errs,            \* the errors reported for s, in order
    fs,              \* the files of each directory
    cwd,             \* the current working directory
    home             \* home_dir(): None or Some(directory)

lineVars == <<stdin, buf, nbytes, reads, result>>
execVars == <<commands, ci, last_command>>
pipeVars == <<segs, si, prev_command, commands_count, commands_nums>>
logVars == <<spawns, waited, opened, errs>>
envVars == <<fs, cwd, home>>
vars == <<pc, lineVars, execVars, pipeVars, logVars, envVars>>

\* what a child's standard stream is connected to: the terminal, the pipe
\* that is the stdout of spawn attempt number pipe, or the file path
Tty == [kind |-> "tty", pipe |-> 0, path |-> <<>>]
PipeOf(k) == [kind |-> "pipe", pipe |-> k, path |-> <<>>]
FileOf(p) == [kind |-> "file", pipe |-> 0, path |-> p]

\* a Child handle the engine holds: the spawn attempt it came from, and
\* whether its field stdout still holds the read end of its pipe
Child(k, piped) == [child |-> k, stdout |-> piped]

(***************************************************************************)
(* load_command_line.                                                      *)
(***************************************************************************)
\* io::stdin().read_line(buf): the bytes up to and including the first
\* newline, all the bytes left when there is none, nothing at end of input
PhysicalLine(input) ==
    IF \E i \in 1..Len(input) : input[i] = "\n"
    THEN SubSeq(input, 1, CHOOSE i \in 1..Len(input) :
                            input[i] = "\n" /\ \A j \in 1..(i - 1) : input[j] # "\n")
    ELSE input

\* lines 54-55: the buffer holds an odd number of quote characters
OddQuotes(s) == Len(MatchIndices(s, <<"\"">>)) % 2 # 0

\* a mutant of EndsWithOperator: the loop runs over all of tokens, ';' too
EndsWithAnyToken(s) ==
    \E k \in 1..Len(Tokens) : EndsWith(TrimEnd(s), Tokens[k])

\* lines 63-70: the buffer, trailing whitespace removed, ends with one of
\* tokens[1..]
EndsWithOperator(s) ==
    \E k \in 2..Len(Tokens) : EndsWith(TrimEnd(s), Tokens[k])

\* a mutant of AfterValidation: the validator's error is dropped
AfterValidationIgnoringError(s, e) ==
    IF e.kind = "panic" THEN "panic"
    ELSE IF EndsWithOperator(s) THEN "read"
    ELSE "ret_ok"

\* lines 59-72, where e is the value of catch_sytax_error(&buf)
AfterValidation(s, e) ==
    IF e.kind = "Some" THEN "ret_err"
    ELSE IF e.kind = "panic" THEN "panic"
    ELSE IF EndsWithOperator(s) THEN "read"
    ELSE "ret_ok"

\* a mutant of Assemble: the quote count of lines 54-57 is not looked at
AssembleNoQuoteCount(s) == AfterValidation(s, catch_sytax_error(s))

\* lines 54-72 on the buffer after a physical read: "read" (re-enter
\* load_command_line), "ret_err" (Err(e)), "ret_ok" (Ok(nbytes)), or "panic"
Assemble(s) ==
    IF OddQuotes(s) THEN "read" ELSE AfterValidation(s, catch_sytax_error(s))

(***************************************************************************)
(* chdir, and what exec_normal_command and exec_command_with_pipes do      *)
(* before they spawn.                                                      *)
(***************************************************************************)
\* chdir(argv): the directory after the call, the error it reports, whether
\* home_dir().unwrap() panicked
chdir(argv, dir, homedir) ==
    IF Len(argv) > 2
    THEN [cwd |-> dir, errs |-> <<"cd: too many arguments">>, panic |-> FALSE]
    ELSE IF Len(argv) = 1 /\ homedir = None
    THEN [cwd |-> dir, errs |-> <<>>, panic |-> TRUE]
    ELSE LET path == IF Len(argv) = 1 THEN homedir[1] ELSE argv[2]
         IN  IF path \in Dirs
             THEN [cwd |-> path, errs |-> <<>>, panic |-> FALSE]
             ELSE [cwd |-> dir, errs |-> <<"cd">>, panic |-> FALSE]

\* lines 345-349 and 409-413: argv[1..] and argv[0] panic on an empty argv
EmptyArgvPanics(loc) == [loc EXCEPT !.panic = loc.panic \/ loc.argv = <<>>]

\* lines 343-348 and 407-412: parse_argv, locate_file_stream, then argv[1..]
\* and argv[0], which panic on an empty argv
Prepare(text, files, homedir) ==
    IF ParseArgvPanics(text, homedir)
    THEN [stream |-> None, argv |-> <<>>, files |-> files, opened |-> <<>>,
          errs |-> <<>>, panic |-> TRUE]
    ELSE EmptyArgvPanics(
            locate_file_stream(parse_argv(text, files, homedir), files, homedir))

\* the flags (istream, wstream) of the apply_pipe_stream_filter call chosen
\* in lines 354-400
PipeFlags(count, nums) ==
    IF count = 0 THEN [istream |-> FALSE, wstream |-> TRUE]
    ELSE IF count # nums - 1 THEN [istream |-> TRUE, wstream |-> TRUE]
    ELSE [istream |-> TRUE, wstream |-> FALSE]

\* line 314: prev_command.as_mut().unwrap() panics on None
PipeFilterPanics(prev, flags) == flags.istream /\ prev = None

\* a mutant of StdinOf: the read end of the first child's pipe is handed to
\* every later child
StdinFromFirst(prev, flags) == IF flags.istream THEN PipeOf(1) ELSE Tty

\* a mutant of StdinOf: the read end is never handed to the child
StdinNeverWired(prev, flags) == Tty

\* lines 313-317: the child's stdin; prev's stdout, when it holds a pipe's
\* read end, is taken
StdinOf(prev, flags) ==
    IF flags.istream /\ prev[1].stdout THEN PipeOf(prev[1].child) ELSE Tty

\* lines 310-312 then apply_file_stream_filter (lines 299-305): the child's
\* stdout, where k is the number of this spawn attempt
StdoutOf(stream, flags, k) ==
    IF stream # None THEN FileOf(stream[1])
    ELSE IF flags.wstream THEN PipeOf(k)
    ELSE Tty

\* Command::spawn succeeds
SpawnOk(argv) == argv[1] \in Executables

(***************************************************************************)
(* The interactive loop: main, load_command_line, exec_commands.           *)
(***************************************************************************)
\* the state at the program point start with nothing read or executed yet,
\* for a standard input, the files of the start directory and a home
\* directory
InitLoop(start, input, files, homedir) ==
    /\ pc = start
    /\ stdin = input
    /\ buf = <<>>
    /\ nbytes = 0
    /\ reads = 0
    /\ result = NoError
    /\ commands = <<>>
    /\ ci = 0
    /\ segs = <<>>
    /\ si = 0
    /\ prev_command = None
    /\ commands_count = 0
    /\ commands_nums = 0
    /\ last_command = None
    /\ spawns = <<>>
    /\ waited = <<>>
    /\ opened = <<>>
    /\ errs = <<>>
    /\ fs = [d \in Dirs |-> IF d = StartDir THEN files ELSE {}]
    /\ cwd = StartDir
    /\ home = homedir

\* lines 472-473: prompt(), which panics without a home directory, then a
\* fresh empty String
Prompt ==
    /\ pc = "prompt"
    /\ IF home = None
       THEN /\ pc' = "panic"
            /\ UNCHANGED <<buf, nbytes, reads, result, spawns, waited, opened, errs>>
       ELSE /\ pc' = "read"
            /\ buf' = <<>>
            /\ nbytes' = 0
            /\ reads' = 0
            /\ result' = NoError
            /\ spawns' = <<>>
            /\ waited' = <<>>
            /\ opened' = <<>>
            /\ errs' = <<>>
    /\ UNCHANGED <<stdin, execVars, pipeVars, envVars>>

\* one call of load_command_line: a physical read appended to the buffer,
\* then lines 54-72
LoadCommandLine ==
    /\ pc = "read"
    /\ \E line \in {PhysicalLine(stdin)} :
        /\ buf' = buf \o line
        /\ stdin' = SubSeq(stdin, Len(line) + 1, Len(stdin))
        /\ nbytes' = Len(line)
    /\ reads' = IF reads < MaxReads THEN reads + 1 ELSE reads
    /\ result' = IF OddQuotes(buf') THEN result ELSE catch_sytax_error(buf')
    /\ pc' = Assemble(buf')
    /\ UNCHANGED <<execVars, pipeVars, logVars, envVars>>

\* line 482: the error is printed and the loop goes on
MainErr ==
    /\ pc = "ret_err"
    /\ errs' = Append(errs, "syntax error")
    /\ pc' = "prompt"
    /\ UNCHANGED <<lineVars, execVars, pipeVars, spawns, waited, opened, envVars>>

\* lines 477-479: end of input, main returns
MainEof ==
    /\ pc = "ret_ok"
    /\ nbytes = 0
    /\ pc' = "done"
    /\ UNCHANGED <<lineVars, execVars, pipeVars, logVars, envVars>>

\* lines 480 and 433: exec_commands(&s) is entered
ExecCommands ==
    /\ pc = "ret_ok"
    /\ nbytes # 0
    /\ commands' = parse_command(buf)
    /\ ci' = 1
    /\ last_command' = None
    /\ pc' = "exec"
    /\ UNCHANGED <<lineVars, pipeVars, logVars, envVars>>

\* the text handed to exec_command_with_pipes and exec_normal_command for
\* the compound command of index i: line, not command (lines 436-437)
ExecText(line, cmds, i) == line

\* lines 439-441 with the handle h: what follows the return of the command's
\* function
AfterCommand(h) ==
    /\ last_command' = h
    /\ IF h # None
       THEN pc' = "wait" /\ ci' = ci
       ELSE pc' = "exec" /\ ci' = ci + 1

\* lines 413-416 and 349-353: the cd builtin, where c is the value of
\* chdir(&argv)
RunCd(c) ==
    /\ cwd' = c.cwd
    /\ errs' = errs \o c.errs
    /\ UNCHANGED spawns

\* Command::spawn() with its map_or_else: the attempt is logged, a failure is
\* reported after the errors perrs that locate_file_stream has reported
Spawn(attempt, perrs) ==
    /\ spawns' = Append(spawns, attempt)
    /\ errs' = errs \o perrs \o (IF attempt.ok THEN <<>> ELSE <<"spawn">>)
    /\ UNCHANGED cwd

\* line 437: exec_normal_command for the current compound command
ExecNormal ==
    /\ pc = "exec"
    /\ ci <= Len(commands)
    /\ ~FindPipe(commands[ci])
    /\ \E p \in {Prepare(ExecText(buf, commands, ci), fs[cwd], home)} :
        /\ fs' = [fs EXCEPT ![cwd] = p.files]
        /\ opened' = opened \o p.opened
        /\ IF p.panic
           THEN /\ pc' = "panic"
                /\ errs' = errs \o p.errs
                /\ UNCHANGED <<ci, last_command, spawns, cwd>>
           ELSE IF p.argv[1] = Cd
           THEN \E c \in {chdir(p.argv, cwd, home)} :
                    /\ RunCd([c EXCEPT !.errs = p.errs \o @])
                    /\ IF c.panic
                       THEN pc' = "panic" /\ UNCHANGED <<ci, last_command>>
                       ELSE AfterCommand(None)
           ELSE \E k \in {Len(spawns) + 1} :
                    /\ Spawn([cmd |-> ci, seg |-> 1, argv |-> p.argv, stdin |-> Tty,
                              stdout |-> IF p.stream # None
                                         THEN FileOf(p.stream[1]) ELSE Tty,
                              ok |-> SpawnOk(p.argv)], p.errs)
                    /\ AfterCommand(IF SpawnOk(p.argv)
                                    THEN Some(Child(k, FALSE)) ELSE None)
    /\ UNCHANGED <<lineVars, commands, pipeVars, waited, home>>

\* lines 436 and 338-341: exec_command_with_pipes is entered
ExecPipes ==
    /\ pc = "exec"
    /\ ci <= Len(commands)
    /\ FindPipe(commands[ci])
    /\ segs' = split_with_strs(Trim(ExecText(buf, commands, ci)), << <<"|">> >>)
    /\ si' = 1
    /\ prev_command' = None
    /\ commands_count' = 0
    /\ commands_nums' = Len(segs')
    /\ pc' = "pipe"
    /\ UNCHANGED <<lineVars, execVars, logVars, envVars>>

\* after the loop body for segment si: the next iteration, or line 403 and
\* the return to exec_commands with the handle h
AfterSegment(h) ==
    /\ prev_command' = h
    /\ si' = si + 1
    /\ IF si < Len(segs)
       THEN pc' = "pipe" /\ UNCHANGED <<ci, last_command>>
       ELSE AfterCommand(h)

\* one iteration of the loop of lines 342-402
SpawnSegment ==
    /\ pc = "pipe"
    /\ si <= Len(segs)
    /\ \E p \in {Prepare(Trim(segs[si]), fs[cwd], home)} :
        /\ fs' = [fs EXCEPT ![cwd] = p.files]
        /\ opened' = opened \o p.opened
        /\ IF p.panic
           THEN /\ pc' = "panic"
                /\ errs' = errs \o p.errs
                /\ UNCHANGED <<ci, last_command, spawns, cwd, si, prev_command,
                               commands_count, commands_nums>>
           ELSE IF p.argv[1] = Cd
           THEN \E c \in {chdir(p.argv, cwd, home)} :
                    /\ RunCd([c EXCEPT !.errs = p.errs \o @])
                    /\ UNCHANGED commands_count
                    /\ IF c.panic
                       THEN /\ pc' = "panic"
                            /\ UNCHANGED <<ci, last_command, si, prev_command,
                                           commands_nums>>
                       ELSE /\ commands_nums' = commands_nums - 1
                            /\ AfterSegment(prev_command)
           ELSE \E flags \in {PipeFlags(commands_count, commands_nums)} :
                    IF PipeFilterPanics(prev_command, flags)
                    THEN /\ pc' = "panic"
                         /\ errs' = errs \o p.errs
                         /\ UNCHANGED <<ci, last_command, spawns, cwd, si, prev_command,
                                        commands_count, commands_nums>>
                    ELSE \E attempt \in {[cmd |-> ci, seg |-> si, argv |-> p.argv,
                                          stdin |-> StdinOf(prev_command, flags),
                                          stdout |-> StdoutOf(p.stream, flags,
                                                              Len(spawns) + 1),
                                          ok |-> SpawnOk(p.argv)]} :
                            /\ Spawn(attempt, p.errs)
                            /\ commands_count' = commands_count + 1
                            /\ UNCHANGED commands_nums
                            /\ AfterSegment(IF attempt.ok
                                            THEN Some(Child(Len(spawns) + 1,
                                                            attempt.stdout.kind = "pipe"))
                                            ELSE None)
    /\ UNCHANGED <<lineVars, commands, segs, waited, home>>

\* lines 439-441: cmd.wait() returns when the child has exited
Wait ==
    /\ pc = "wait"
    /\ waited' = Append(waited, last_command[1].child)
    /\ ci' = ci + 1
    /\ pc' = "exec"
    /\ UNCHANGED <<lineVars, commands, last_command, pipeVars, spawns, opened, errs, envVars>>

\* line 442: the loop over the compound commands is over, main prompts again
ExecDone ==
    /\ pc = "exec"
    /\ ci > Len(commands)
    /\ pc' = "prompt"
    /\ UNCHANGED <<lineVars, execVars, pipeVars, logVars, envVars>>

Next ==
    \/ Prompt
    \/ LoadCommandLine
    \/ MainErr
    \/ MainEof
    \/ ExecCommands
    \/ ExecNormal
    \/ ExecPipes
    \/ SpawnSegment
    \/ Wait
    \/ ExecDone

(***************************************************************************)
(* Spec: the loop on every standard input of at most MaxInput characters   *)
(* over a word character, the separators ';' and '|', the quote and the    *)
(* newline.                                                                *)
(***************************************************************************)
InputChars == {"a", ";", "|", "\"", "\n"}

\* the sequences of at most n elements of S
SeqsUpTo(S, n) == UNION {[1..k -> S] : k \in 0..n}

Init ==
    \E input \in SeqsUpTo(InputChars, MaxInput) :
        InitLoop("prompt", input, {<<"a">>}, Some(HomeDir))

Spec == Init /\ [][Next]_vars

(***************************************************************************)
(* SpecPipe: the loop on one command line, a pipeline of at most MaxSegs   *)
(* segments, followed by the end of input.                                 *)
(***************************************************************************)
RECURSIVE Join(_, _)
\* the parts of a sequence written one after the other with sep in between
Join(parts, sep) ==
    IF parts = <<>> THEN <<>>
    ELSE IF Len(parts) = 1 THEN parts[1]
    ELSE parts[1] \o sep \o Join(Tail(parts), sep)

\* the segments typed: a and b are on PATH and x is not, cd is the builtin,
\* one segment redirects its output, one has a quoted '|' as its argument,
\* one lacks its command
SegTexts ==
    { <<"a">>, <<"b">>, <<"x">>, <<"c", "d">>,
      <<"a", " ", ">", "f">>,
      <<"a", " ", "\"", "|", "\"">>,
      <<">", "f">> }

InitPipe ==
    \E segments \in SeqsUpTo(SegTexts, MaxSegs) \ {<<>>} :
        \E homedir \in {None, Some(HomeDir)} :
            InitLoop("prompt", Join(segments, <<"|">>) \o <<"\n">>, {}, homedir)

SpecPipe == InitPipe /\ [][Next]_vars

(***************************************************************************)
(* SpecHome: SpecPipe in an environment where the home directory may stop  *)
(* being resolvable while a line read is waiting to be executed.           *)
(***************************************************************************)
\* home_dir() (lines 329 and 448) resolves the home directory anew at every
\* call, from the environment; from now on it yields None
LoseHome ==
    /\ pc = "ret_ok"
    /\ home # None
    /\ home' = None
    /\ UNCHANGED <<pc, lineVars, execVars, pipeVars, logVars, fs, cwd>>

NextHome == Next \/ LoseHome

SpecHome == InitPipe /\ [][NextHome]_vars

(***************************************************************************)
(* SpecLine: the loop on a standard input of at most MaxSegs physical      *)
(* lines, each a command followed by nothing or by one operator token.     *)
(***************************************************************************)
\* the physical lines typed: a alone, a followed by each of the seven
\* tokens, a followed by '|' and a blank, and '>' alone
PhysicalLines ==
    { <<"a", "\n">>, <<"a", ";", "\n">>, <<"a", "|", "\n">>,
      <<"a", "&", "&", "\n">>, <<"a", ">", ">", "\n">>, <<"a", "<", "<", "\n">>,
      <<"a", ">", "\n">>, <<"a", "<", "\n">>, <<"a", "|", " ", "\n">>,
      <<">", "\n">> }

\* the lines of a sequence written one after the other
Concat(lines) == Join(lines, <<>>)

InitLine ==
    \E lines \in SeqsUpTo(PhysicalLines, MaxSegs) :
        InitLoop("prompt", Concat(lines), {}, Some(HomeDir))

SpecLine == InitLine /\ [][Next]_vars

(***************************************************************************)
(* SpecRedir: the loop on one command line of at most MaxWords words       *)
(* separated by blanks, followed by the end of input, in a directory that  *)
(* holds the files a and b.                                                *)
(***************************************************************************)
\* the words typed: a command, the redirection operators alone and fused
\* with a pattern, a pattern, a file name, a directory, the pipe, and '>'
\* fused with a target that starts with '<'
Words ==
    { <<"a">>, <<">">>, <<">", ">">>, <<">", "*">>, <<"*">>, <<"f">>,
      <<"/">>, <<"|">>, <<">", "<", "f">> }

InitRedir ==
    \E words \in SeqsUpTo(Words, MaxWords) \ {<<>>} :
        InitLoop("prompt", Join(words, <<" ">>) \o <<"\n">>,
                 {<<"a">>, <<"b">>}, Some(HomeDir))

SpecRedir == InitRedir /\ [][Next]_vars

(***************************************************************************)
(* SpecSyntax: catch_sytax_error applied to every line of at most MaxLen   *)
(* characters over the operator characters, a word character, a blank and  *)
(* the quote.                                                              *)
(***************************************************************************)
SyntaxChars == {"a", " ", ";", "|", "&", ">", "<", "\""}

InitSyntax ==
    InitLoop("line", <<>>, {}, Some(HomeDir))

\* one more character of the line to validate
TypeChar ==
    /\ pc = "line"
    /\ Len(buf) < MaxLen
    /\ \E c \in SyntaxChars : buf' = Append(buf, c)
    /\ UNCHANGED <<pc, stdin, nbytes, reads, result, execVars, pipeVars, logVars, envVars>>

\* the call catch_sytax_error(&buf)
Validate ==
    /\ pc = "line"
    /\ result' = catch_sytax_error(buf)
    /\ pc' = "validated"
    /\ UNCHANGED <<stdin, buf, nbytes, reads, execVars, pipeVars, logVars, envVars>>

NextSyntax == TypeChar \/ Validate

SpecSyntax == InitSyntax /\ [][NextSyntax]_vars

(***************************************************************************)
(* SpecSplit: split_with_strs applied, with each delimiter set the program *)
(* uses, to every string of at most MaxLen characters of SyntaxChars that  *)
(* has an even quote count.                                                *)
(***************************************************************************)
\* the delimiter sets of parse_command (line 152) and of
\* exec_command_with_pipes (line 338)
CommandDelims == << <<";">>, <<"&", "&">> >>
PipeDelims == << <<"|">> >>

\* the calls split_with_strs(&[";", "&&"]) and split_with_strs(&["|"]) on the
\* string typed
SplitStrs ==
    /\ pc = "line"
    /\ ~OddQuotes(buf)
    /\ commands' = split_with_strs(buf, CommandDelims)
    /\ segs' = split_with_strs(buf, PipeDelims)
    /\ pc' = "split"
    /\ UNCHANGED <<lineVars, ci, last_command, si, prev_command, commands_count,
                   commands_nums, logVars, envVars>>

NextSplit == TypeChar \/ SplitStrs

SpecSplit == InitSyntax /\ [][NextSplit]_vars

(***************************************************************************)
(* Claims about catch_sytax_error (checked under SpecSyntax).              *)
(***************************************************************************)
\* the three tokens that may not start a line
C4_LeadOps == { <<";">>, <<"|">>, <<"&", "&">> }

\* C4: a line that, trimmed, starts with ';', '|' or '&&' is rejected with a
\* syntax error naming exactly that token, whatever follows the token.
C4_LeadingOperatorRejected ==
    \A op \in C4_LeadOps :
        (pc = "validated" /\ StartsWith(Trim(buf), op))
            => result = [kind |-> "Some", token |-> op]

\* C4 witness: a validated line with a leading blank, then '&&', then an
\* unmatched quote, rejected naming '&&'
C4_Witness ==
    /\ pc = "validated"
    /\ Len(buf) = 4 /\ buf[1] = " " /\ buf[4] = "\""
    /\ StartsWith(Trim(buf), <<"&", "&">>)
    /\ result = [kind |-> "Some", token |-> <<"&", "&">>]

RECURSIVE C5_Occurrences(_, _)
\* the operator-token occurrences outside quotes from offset i on, scanning
\* left to right with '&&', '>>' and '<<' taken as one token
C5_Occurrences(line, i) ==
    IF i >= Len(line) THEN <<>>
    ELSE IF index_in_escape_scope(line, i) THEN C5_Occurrences(line, i + 1)
    ELSE IF i + 2 <= Len(line)
            /\ Slice(line, i, i + 2) \in { <<"&", "&">>, <<">", ">">>, <<"<", "<">> }
         THEN << <<i, Slice(line, i, i + 2)>> >> \o C5_Occurrences(line, i + 2)
    ELSE IF line[i + 1] \in {";", "|", ">", "<"}
         THEN << <<i, <<line[i + 1]>> >> >> \o C5_Occurrences(line, i + 1)
    ELSE C5_Occurrences(line, i + 1)

RECURSIVE C5_Leftmost(_, _, _)
\* the leftmost occurrence with nothing but whitespace between the end of
\* the previous occurrence (or the line start) and its own start, if any
C5_Leftmost(line, occ, prev) ==
    IF occ = <<>> THEN <<>>
    ELSE IF Trim(Slice(line, prev, Head(occ)[1])) = <<>> THEN Head(occ)[2]
    ELSE C5_Leftmost(line, Tail(occ), Head(occ)[1] + Len(Head(occ)[2]))

\* C5: for a trimmed line with an even quote count, the validator fails if
\* and only if some operator occurrence outside quotes has an empty left-hand
\* side, and the error names the leftmost such operator.
C5_FailsIffEmptyOperand ==
    (pc = "validated" /\ ~EscapeScopePanics(Trim(buf)))
        => LET bad == C5_Leftmost(Trim(buf), C5_Occurrences(Trim(buf), 0), 0)
           IN  result = IF bad = <<>> THEN [kind |-> "None", token |-> <<>>]
                        ELSE [kind |-> "Some", token |-> bad]

(***************************************************************************)
(* Claims about the interactive loop (Spec), the pipeline (SpecPipe) and   *)
(* redirection (SpecRedir).                                                *)
(***************************************************************************)
\* the pipe segments of the compound command of index i, from its own text
C1_OwnSegments(i) == split_with_strs(Trim(commands[i]), << <<"|">> >>)

\* C1: the i-th execution spawns only processes whose argv comes from the
\* text of the i-th compound command: every spawn attempt made for compound
\* command i, segment j, has the argv of segment j of that command's text.
C1_ArgvFromOwnCommand ==
    \A k \in 1..Len(spawns) :
        /\ spawns[k].seg \in 1..Len(C1_OwnSegments(spawns[k].cmd))
        /\ spawns[k].argv =
              Prepare(C1_OwnSegments(spawns[k].cmd)[spawns[k].seg], fs[cwd], home).argv

\* C2: a buffer with an odd number of quote characters is only ever waiting
\* for another physical read; it is never returned (Ok or Err) or executed.
C2_OddQuotesReadAgain == OddQuotes(buf) => pc = "read"

\* C2 witness: a line returned Ok after two reads, the first of which left
\* the buffer with an odd quote count
C2_Witness ==
    /\ pc = "ret_ok"
    /\ reads = 2
    /\ \E i \in 1..Len(buf) : buf[i] = "\n" /\ OddQuotes(SubSeq(buf, 1, i)) /\ i < Len(buf)
    /\ ~OddQuotes(buf)

\* C3: after a zero-byte physical read the assembler does not read again:
\* load_command_line has returned Ok(0) or main has returned.
C3_ZeroReadEndsLoop == (reads > 0 /\ nbytes = 0) => pc \in {"ret_ok", "done"}

\* C6: when the validator fails on the buffer, load_command_line returns the
\* error at once; from there main prompts again without reading, without a
\* spawn and without opening a file; and the buffer after a prompt is empty.
C6_SyntaxErrorSkipsExec ==
    [][ /\ (pc = "read" /\ ~OddQuotes(buf') /\ result'.kind = "Some")
            => pc' = "ret_err"
        /\ pc = "ret_err"
            => /\ result.kind = "Some"
               /\ pc' = "prompt"
               /\ stdin' = stdin
               /\ spawns = <<>> /\ spawns' = <<>>
               /\ opened = <<>> /\ opened' = <<>>
        /\ (pc = "prompt" /\ pc' = "read") => buf' = <<>> ]_vars

\* C6 witness: back at the prompt after a syntax error, with input left
C6_Witness ==
    /\ pc = "prompt"
    /\ result.kind = "Some"
    /\ errs = <<"syntax error">>
    /\ spawns = <<>>
    /\ stdin # <<>>

\* the spawn attempts made for the compound command being executed
C7_Chain == SelectSeq(spawns, LAMBDA a : a.cmd = ci)

\* segment j of the pipeline is no cd, its command is on PATH, and it has no
\* redirection unless it is the last one
C7_PlainSegment(j) ==
    /\ Prepare(Trim(segs[j]), fs[cwd], home).argv # <<>>
    /\ Prepare(Trim(segs[j]), fs[cwd], home).argv[1] \in Executables
    /\ j < Len(segs) => Prepare(Trim(segs[j]), fs[cwd], home).opened = <<>>

\* C7: a pipeline of n >= 2 such segments is spawned in order: the first
\* child reads the terminal, every child but the last writes a fresh pipe,
\* and child k > 1 reads the pipe child k - 1 writes.
C7_PipelineWiring ==
    (pc = "wait" /\ Len(segs) >= 2 /\ \A j \in 1..Len(segs) : C7_PlainSegment(j))
        => /\ Len(C7_Chain) = Len(segs)
           /\ \A k \in 1..Len(segs) :
                /\ C7_Chain[k].seg = k
                /\ C7_Chain[k].ok
                /\ k = 1 => C7_Chain[k].stdin = Tty
                /\ k > 1 => /\ C7_Chain[k].stdin.kind = "pipe"
                            /\ C7_Chain[k].stdin = C7_Chain[k - 1].stdout
                /\ k < Len(segs) =>
                        /\ C7_Chain[k].stdout.kind = "pipe"
                        /\ \A m \in 1..(k - 1) : C7_Chain[m].stdout # C7_Chain[k].stdout

\* C7 witness: a pipeline of three such segments, all spawned, the third
\* reading the second's pipe
C7_Witness ==
    /\ pc = "wait"
    /\ Len(segs) = 3
    /\ \A j \in 1..3 : C7_PlainSegment(j)
    /\ Len(spawns) = 3
    /\ spawns[3].stdin = PipeOf(2)

\* C8: the last child spawned for a compound command writes to the terminal
\* or to its redirection file, never to a pipe.
C8_LastStdoutIsNoPipe ==
    pc = "wait" => spawns[last_command[1].child].stdout.kind # "pipe"

\* C9: a failed spawn of a segment does not crash the engine while segments
\* remain to be spawned.
C9_FailedSpawnGoesOn ==
    (spawns # <<>> /\ ~spawns[Len(spawns)].ok /\ si <= Len(segs)) => pc # "panic"

\* the redirection target w matches more than one existing path
C10_Ambiguous(w) == Cardinality({f \in fs[cwd] : GlobMatch(w, f)}) > 1

\* the words of the line hold an output redirection, split or fused, whose
\* target matches more than one existing path
C10_AmbiguousTarget(words) ==
    \E i \in 1..Len(words) :
        \/ /\ words[i] \in { <<">">>, <<">", ">">> }
           /\ i < Len(words)
           /\ C10_Ambiguous(words[i + 1])
        \/ /\ StartsWith(words[i], <<">", ">">>) /\ Len(words[i]) > 2
           /\ C10_Ambiguous(Slice(words[i], 2, Len(words[i])))
        \/ /\ StartsWith(words[i], <<">">>) /\ ~StartsWith(words[i], <<">", ">">>)
           /\ Len(words[i]) > 1
           /\ C10_Ambiguous(Slice(words[i], 1, Len(words[i])))

\* C10: a command line of one segment whose redirection target is ambiguous
\* is reported as an ambiguous redirect, opens no file and spawns no process.
C10_AmbiguousRedirectAborts ==
    (/\ pc \in {"exec", "wait"}
     /\ ~FindPipe(buf)
     /\ C10_AmbiguousTarget(split_with_chars(Trim(buf))))
        => /\ \A k \in 1..Len(spawns) : ~spawns[k].ok
           /\ opened = <<>>
           /\ (ci > 1 => \E i \in 1..Len(errs) : errs[i] = "ambiguous redirect")

\* a word that is neither a redirection operator nor a pattern nor quoted
C11_PlainWord(w) ==
    /\ w # <<>>
    /\ \A k \in 1..Len(w) : w[k] \notin {">", "*", "\"", "~", "|"}

\* the words hold one standalone '>' or '>>' at index i, followed by a target,
\* and nothing else but plain words
C11_OneSplitRedirect(words, i) ==
    /\ i \in 1..(Len(words) - 1)
    /\ words[i] \in { <<">">>, <<">", ">">> }
    /\ \A k \in 1..Len(words) : k # i => C11_PlainWord(words[k])

\* the words without the operator at index i and the target after it
C11_Without(words, i) == SubSeq(words, 1, i - 1) \o SubSeq(words, i + 2, Len(words))

\* what C11 promises for the words of the line and the operator at index i:
\* nothing but the target is opened, and every spawn gets the other words
C11_Kept(words, i) ==
    /\ \A k \in 1..Len(opened) : opened[k].path = words[i + 1]
    /\ Len(opened) <= 1
    /\ \A k \in 1..Len(spawns) : spawns[k].argv = C11_Without(words, i)

\* C11: for a one-segment line with one standalone '>' or '>>', exactly the
\* next argument is the redirection target: only that file is opened, and the
\* spawned process gets every other argument, before or after the target, in
\* the original order.
C11_OnlyNextArgumentIsTarget ==
    \A i \in 1..MaxWords :
        (pc \in {"exec", "wait", "panic"} /\ ~FindPipe(buf)
            /\ C11_OneSplitRedirect(split_with_chars(Trim(buf)), i))
        => C11_Kept(split_with_chars(Trim(buf)), i)

(***************************************************************************)
(* Claims about split_with_strs (checked under SpecSplit).                 *)
(***************************************************************************)
\* offset i of s lies inside a quote span: an odd number of quote characters
\* stands before it
C12_InQuote(s, i) == Cardinality({k \in 1..i : s[k] = "\""}) % 2 = 1

\* some delimiter of tokens stands at offset i of s, outside quotes, and ends
\* at or before offset end
C12_DelimAt(s, tokens, i, end) ==
    /\ ~C12_InQuote(s, i)
    /\ \E k \in 1..Len(tokens) :
          i + Len(tokens[k]) <= end /\ Slice(s, i, i + Len(tokens[k])) = tokens[k]

\* the delimiter that stands at offset i
C12_TheDelim(s, tokens, i) ==
    tokens[CHOOSE k \in 1..Len(tokens) :
              i + Len(tokens[k]) <= Len(s) /\ Slice(s, i, i + Len(tokens[k])) = tokens[k]]

RECURSIVE C12_Delims(_, _, _)
\* the unquoted delimiter occurrences of s from offset i on, left to right,
\* as pairs (offset, delimiter)
C12_Delims(s, tokens, i) ==
    IF i >= Len(s) THEN <<>>
    ELSE IF C12_DelimAt(s, tokens, i, Len(s))
         THEN << <<i, C12_TheDelim(s, tokens, i)>> >>
                 \o C12_Delims(s, tokens, i + Len(C12_TheDelim(s, tokens, i)))
         ELSE C12_Delims(s, tokens, i + 1)

RECURSIVE C12_Interleaved(_, _, _, _, _)
\* the slices, laid from offset o on with the delimiter occurrences in
\* between at their offsets, are the text of s from o on (a last slice that
\* is missing counts as empty), and no slice holds an unquoted delimiter
C12_Interleaved(s, tokens, slices, delims, o) ==
    IF slices = <<>> THEN delims = <<>> /\ o = Len(s)
    ELSE /\ o + Len(Head(slices)) <= Len(s)
         /\ Slice(s, o, o + Len(Head(slices))) = Head(slices)
         /\ \A j \in o..(o + Len(Head(slices)) - 1) :
                ~C12_DelimAt(s, tokens, j, o + Len(Head(slices)))
         /\ IF delims = <<>>
            THEN Tail(slices) = <<>> /\ o + Len(Head(slices)) = Len(s)
            ELSE /\ Head(delims)[1] = o + Len(Head(slices))
                 /\ C12_Interleaved(s, tokens, Tail(slices), Tail(delims),
                                    Head(delims)[1] + Len(Head(delims)[2]))

\* the round trip for the value slices of split_with_strs(s, tokens)
C12_RoundTrip(s, tokens, slices) ==
    C12_Interleaved(s, tokens, slices, C12_Delims(s, tokens, 0), 0)

\* C12: for a string with an even quote count and each delimiter set of the
\* program, the slices of split_with_strs interleaved with the unquoted
\* delimiter occurrences at their offsets give back the string; no slice
\* holds an unquoted delimiter and no cut lies inside a quote span.
C12_SplitRoundTrip ==
    pc = "split" =>
        /\ C12_RoundTrip(buf, CommandDelims, commands)
        /\ C12_RoundTrip(buf, PipeDelims, segs)

\* C12 witness: a string with a quoted ';' and an unquoted one, cut once
C12_Witness ==
    /\ pc = "split"
    /\ buf = <<"\"", ";", "\"", ";">>
    /\ commands = << <<"\"", ";", "\"">> >>

(***************************************************************************)
(* Claims about the operator scan of catch_sytax_error (SpecSyntax).       *)
(***************************************************************************)
\* how many entries (i, token) the scanned vector pos holds
C13_Entries(pos, i, token) ==
    Cardinality({k \in 1..Len(pos) : pos[k] = <<i, token>>})

\* the occurrence of the two-character operator at offset i, outside quotes,
\* has left one entry of its own in pos and no entry of its character
C13_OneEntry(line, pos, i, double) ==
    /\ C13_Entries(pos, i, double) = 1
    /\ C13_Entries(pos, i, <<double[1]>>) = 0
    /\ C13_Entries(pos, i + 1, <<double[1]>>) = 0

\* C13: in the scan of a line the validator does not reject at once, every
\* unquoted '>>' (resp. '<<') at offset i leaves exactly one entry (i, '>>')
\* (resp. (i, '<<')) and no '>' (resp. '<') entry at offset i or i + 1.
C13_DoubleOperatorIsOneEntry ==
    (pc = "validated" /\ ~EscapeScopePanics(Trim(buf)) /\ LeadingToken(Trim(buf)) = <<>>)
        => \A double \in { <<">", ">">>, <<"<", "<">> } :
              \A k \in 1..Len(Unquoted(Trim(buf), MatchIndices(Trim(buf), double))) :
                 C13_OneEntry(Trim(buf), ScanPos(Trim(buf)),
                              Unquoted(Trim(buf), MatchIndices(Trim(buf), double))[k],
                              double)

(***************************************************************************)
(* Claims about the execution engine (SpecPipe, SpecRedir).                *)
(***************************************************************************)
\* the spawn attempts of compound command c that succeeded
C14_Spawned(c) == {k \in 1..Len(spawns) : spawns[k].cmd = c /\ spawns[k].ok}

\* the last of them
C14_LastSpawned(c) == CHOOSE k \in C14_Spawned(c) : \A m \in C14_Spawned(c) : m <= k

\* C14: once exec_commands has gone past compound command c, the last
\* successfully spawned process of c, if there is one, has been waited on;
\* also when the spawn of a later segment failed.
C14_LastSpawnedIsWaited ==
    \A c \in 1..(ci - 1) :
        (pc \in {"exec", "pipe", "wait", "prompt"} /\ C14_Spawned(c) # {})
            => \E w \in 1..Len(waited) : waited[w] = C14_LastSpawned(c)

\* C15: when the line is cd with no argument and the home directory cannot be
\* resolved, the interpreter does not abort; once the command is done an
\* error has been reported and the working directory is unchanged.
C15_BareCdWithoutHomeGoesOn ==
    (Trim(buf) = Cd /\ home = None /\ ci >= 1)
        => /\ pc # "panic"
           /\ ci > 1 => (errs # <<>> /\ cwd = StartDir)

(***************************************************************************)
(* Claims about load_command_line on operator-ended lines (SpecLine).      *)
(***************************************************************************)
\* the six continuation tokens
C16_Continuations ==
    { <<"|">>, <<"&", "&">>, <<">", ">">>, <<"<", "<">>, <<">">>, <<"<">> }

\* s, trailing whitespace removed, ends with a continuation token
C16_EndsOpen(s) == \E t \in C16_Continuations : EndsWith(TrimEnd(s), t)

\* C16: a physical read that leaves a buffer with an even quote count that
\* passes validation is followed by another read when the buffer ends with a
\* continuation token, and by the return of Complete otherwise, ';' included;
\* a read appends to the buffer; no Complete buffer ends with such a token.
C16_ContinuationReadsOn ==
    [][ /\ (pc = "read" /\ ~OddQuotes(buf') /\ result' = NoError /\ pc' # "panic")
            => pc' = (IF C16_EndsOpen(buf') THEN "read" ELSE "ret_ok")
        /\ pc = "read" => SubSeq(buf', 1, Len(buf)) = buf
        /\ pc' = "ret_ok" => ~C16_EndsOpen(buf') ]_vars

\* C16 witness: Complete after two reads: the first line ends with '>>', the
\* second with ';'
C16_Witness ==
    /\ pc = "ret_ok"
    /\ reads = 2
    /\ buf = <<"a", ">", ">", "\n", "a", ";", "\n">>

\* segment j of the pipeline is the cd builtin
C17_IsCd(j) ==
    /\ Prepare(Trim(segs[j]), fs[cwd], home).argv # <<>>
    /\ Prepare(Trim(segs[j]), fs[cwd], home).argv[1] = Cd

\* segment j is a command on PATH without redirection
C17_IsPlain(j) ==
    /\ Prepare(Trim(segs[j]), fs[cwd], home).argv # <<>>
    /\ Prepare(Trim(segs[j]), fs[cwd], home).argv[1] \in Executables
    /\ Prepare(Trim(segs[j]), fs[cwd], home).opened = <<>>

\* the indices of the segments that are no cd, in order
C17_NonCd == SelectSeq([j \in 1..Len(segs) |-> j], LAMBDA j : ~C17_IsCd(j))

\* the chain of spawns is wired as a pipeline of the segments of indices rest
C17_WiredAs(chain, rest) ==
    /\ Len(chain) = Len(rest)
    /\ \A k \in 1..Len(rest) :
          /\ chain[k].seg = rest[k]
          /\ chain[k].stdin = (IF k = 1 THEN Tty ELSE chain[k - 1].stdout)
          /\ (chain[k].stdout.kind = "pipe") = PipeFlags(k - 1, Len(rest)).wstream

\* C17: in a pipeline of cd segments and plain commands, no process is
\* spawned for a cd segment, and the other segments are wired as in the same
\* pipeline with the cd segments deleted.
C17_CdLeavesWiringAlone ==
    (/\ pc = "wait"
     /\ Len(segs) >= 2
     /\ \A j \in 1..Len(segs) : C17_IsCd(j) \/ C17_IsPlain(j))
        => C17_WiredAs(C7_Chain, C17_NonCd)

\* the words are a command, plain arguments, and last a standalone '>' or
\* '>>' with a target that is a directory, which cannot be opened for writing
C18_TargetCannotOpen(words) ==
    /\ Len(words) >= 3
    /\ C11_OneSplitRedirect(words, Len(words) - 1)
    /\ words[Len(words)] \in Dirs

\* C18: for a one-segment line whose redirection target cannot be opened, the
\* error is reported and no process is spawned.
C18_OpenFailureAbortsSpawn ==
    (/\ pc \in {"exec", "wait"}
     /\ (pc = "wait" \/ ci > 1)
     /\ ~FindPipe(buf)
     /\ C18_TargetCannotOpen(split_with_chars(Trim(buf))))
        => /\ \E i \in 1..Len(errs) : errs[i] = "open"
           /\ \A k \in 1..Len(spawns) : ~spawns[k].ok

\* the handle the engine holds: prev_command while the pipeline is built,
\* last_command while its last child is waited on
C19_Handle ==
    IF pc = "pipe" THEN prev_command
    ELSE IF pc = "wait" THEN last_command
    ELSE None

\* the spawn attempts whose stdin is the read end of pipe k
C19_Readers(k) == {m \in 1..Len(spawns) : spawns[m].stdin = PipeOf(k)}

\* C19: the read end of a pipe has at most one owner: it is the stdin of at
\* most one segment, one spawned after the child that writes the pipe, and
\* while the engine's handle of the writing child holds it, of none.
C19_ReadEndHasOneOwner ==
    \A k \in 1..Len(spawns) :
        /\ Cardinality(C19_Readers(k)) <= 1
        /\ \A m \in C19_Readers(k) : k < m /\ spawns[k].stdout = PipeOf(k)
        /\ (C19_Handle = Some(Child(k, TRUE))) => C19_Readers(k) = {}

\* C19 witness: while a pipeline of three segments is built, the first pipe
\* has gone to the second child and the engine holds the second pipe
C19_Witness ==
    /\ pc = "pipe"
    /\ Len(segs) = 3
    /\ Len(spawns) = 2
    /\ C19_Readers(1) = {2}
    /\ prev_command = Some(Child(2, TRUE))

\* the argument list that parse_argv and locate_file_stream leave for the
\* command text is not empty
C20_ArgvLeft(text) ==
    ParseArgvPanics(text, home) \/ Prepare(text, fs[cwd], home).argv # <<>>

\* C20: whenever exec_normal_command or an iteration of
\* exec_command_with_pipes is about to run on a line that passed validation,
\* the argument list it will index is not empty.
C20_ArgvIsNeverEmpty ==
    /\ (pc = "exec" /\ ci <= Len(commands) /\ ~FindPipe(commands[ci]))
          => C20_ArgvLeft(ExecText(buf, commands, ci))
    /\ (pc = "pipe" /\ si <= Len(segs)) => C20_ArgvLeft(Trim(segs[si]))

====
